---- MODULE Spec2Model ----
(***************************************************************************)
(* A model of chippy, a CHIP-8 virtual machine written in Go.              *)
(*                                                                         *)
(* The VM struct (internal/chip8/chip8.go) is the record variable vm; its  *)
(* window, its two channels and the three goroutines of the run command    *)
(* (runChippy, VM.Run, VM.ManageAudio) are the other variables.  Every     *)
(* opcode handler is an operator from a VM record to a VM record, written  *)
(* from its Go body; uint8 and uint16 arithmetic keeps its width.          *)
(***************************************************************************)
EXTENDS Integers, Sequences, FiniteSets

VARIABLES
    vm,         \* the VM struct: memory, opcode, v, i, pc, stack, sp, gfx,
                \* delayTimer, soundTimer, keypad, drawFlag
    window,     \* vm.window: closed flag, polled input, KeysDown tickers
    audioC,     \* vm.audioC, an unbuffered channel: "open" or "closed"
    runPc,      \* where the goroutine running VM.Run stands
    audioPc,    \* where the goroutine running VM.ManageAudio stands
    mainPc,     \* where runChippy stands
    obs         \* what the program has shown so far: the error the last
                \* cycle printed, what drawOrUpdate did last, the audio
                \* events sent since the sound timer was last written, and
                \* the open calls (address and depth of each 2NNN not yet
                \* returned from)

vars == <<vm, window, audioC, runPc, audioPc, mainPc, obs>>

----------------------------------------------------------------------------
(* Sizes and constants of the program.                                     *)

MemSize == 4096
StackSize == 16
GfxSize == 2048
NumKeys == 16
FontSize == 80
RomBase == 512
maxRomSize == 3583

\* pixel.FontSet, the 80 bytes of the sixteen hex glyphs.
FontSet ==
    << 240, 144, 144, 144, 240,    32,  96,  32,  32, 112,
       240,  16, 240, 128, 240,   240,  16, 240,  16, 240,
       144, 144, 240,  16,  16,   240, 128, 240,  16, 240,
       240, 128, 240, 144, 240,   240,  16,  32,  64,  64,
       240, 144, 240, 144, 240,   240, 144, 240,  16, 240,
       240, 144, 240, 144, 144,   224, 144, 224, 144, 224,
       240, 128, 128, 128, 128,   240, 144, 144, 144, 224,
       240, 128, 240, 128, 240,   240, 128, 240, 128, 128 >>

----------------------------------------------------------------------------
(* Fixed-width arithmetic and the bit operations of Go's byte and uint16.  *)

U8(n) == n % 256
U16(n) == n % 65536

RECURSIVE BitAnd(_, _)
BitAnd(a, b) ==
    IF a = 0 \/ b = 0 THEN 0
    ELSE (a % 2) * (b % 2) + 2 * BitAnd(a \div 2, b \div 2)

RECURSIVE BitOr(_, _)
BitOr(a, b) ==
    IF a = 0 THEN b
    ELSE IF b = 0 THEN a
    ELSE (IF a % 2 = 1 \/ b % 2 = 1 THEN 1 ELSE 0)
         + 2 * BitOr(a \div 2, b \div 2)

RECURSIVE BitXor(_, _)
BitXor(a, b) ==
    IF a = 0 THEN b
    ELSE IF b = 0 THEN a
    ELSE ((a + b) % 2) + 2 * BitXor(a \div 2, b \div 2)

\* n >> k and (n << k) truncated to a byte.
Shr(n, k) == n \div (2 ^ k)
Shl8(n, k) == U8(n * (2 ^ k))

----------------------------------------------------------------------------
(* Construction: NewVM, loadFontSet, loadROM.                              *)

\* The VM literal of NewVM: every array zeroed, pc = 0x200.
ZeroVM ==
    [ memory     |-> [a \in 0 .. MemSize - 1 |-> 0],
      opcode     |-> 0,
      v          |-> [r \in 0 .. 15 |-> 0],
      i          |-> 0,
      pc         |-> RomBase,
      stack      |-> [s \in 0 .. StackSize - 1 |-> 0],
      sp         |-> 0,
      gfx        |-> [g \in 0 .. GfxSize - 1 |-> 0],
      delayTimer |-> 0,
      soundTimer |-> 0,
      keypad     |-> [k \in 0 .. NumKeys - 1 |-> 0],
      drawFlag   |-> FALSE ]

\* loadFontSet: memory[i] = FontSet[i] for i = 0 .. 79.
RECURSIVE fontLoop(_, _)
fontLoop(m, k) ==
    IF k >= FontSize THEN m
    ELSE fontLoop([m EXCEPT !.memory[k] = FontSet[k + 1]], k + 1)

\* loadFontSet placing the font at 0x050 .. 0x09F.
loadFontSet_at0x50(m) ==
    [m EXCEPT !.memory = [a \in 0 .. MemSize - 1 |->
                            IF a \in 80 .. 80 + FontSize - 1
                            THEN FontSet[a - 79] ELSE m.memory[a]]]

loadFontSet(m) == fontLoop(m, 0)

\* loadROM panics on a rom longer than maxRomSize; otherwise byte k of the
\* rom goes to memory[0x200 + k].
RomTooLarge(rom) == Len(rom) > maxRomSize

\* The copy loop of loadROM over rom bytes lo .. hi - 1, in index order
\* (split in halves so that a long rom does not nest deeply).
RECURSIVE romLoop(_, _, _, _)
romLoop(mem, rom, lo, hi) ==
    IF lo >= hi THEN mem
    ELSE IF hi = lo + 1 THEN [mem EXCEPT ![RomBase + lo] = rom[lo + 1]]
    ELSE LET mid  == (lo + hi) \div 2
             left == romLoop(mem, rom, lo, mid)
         IN  \* the first half is copied (and evaluated) before the second
             IF DOMAIN left = {} THEN left ELSE romLoop(left, rom, mid, hi)

loadROM(m, rom) == [m EXCEPT !.memory = romLoop(m.memory, rom, 0, Len(rom))]

\* The VM NewVM has built when it calls loadROM.
FontVM == loadFontSet(ZeroVM)

NewVM(rom) == loadROM(FontVM, rom)

----------------------------------------------------------------------------
(* The opcode handlers.  Each takes the VM and the operands parseOpcode     *)
(* decoded, and returns the VM after the handler.                          *)

\* 00E0 that leaves the screen as it is.
_0x00E0_keepsScreen(m) == [m EXCEPT !.pc = U16(m.pc + 2)]

_0x00E0(m) ==
    [m EXCEPT !.gfx = [g \in 0 .. GfxSize - 1 |-> 0],
              !.pc = U16(m.pc + 2)]

\* 00EE returning to the call itself: the + 2 left out.
_0x00EE_toCall(m) ==
    [m EXCEPT !.pc = U16(m.stack[m.sp]),
              !.sp = U16(m.sp + 65535)]

_0x00EE(m) ==
    [m EXCEPT !.pc = U16(m.stack[m.sp] + 2),
              !.sp = U16(m.sp + 65535)]

_0x1000(m, nnn) == [m EXCEPT !.pc = nnn]

_0x2000(m, nnn) ==
    [m EXCEPT !.sp = U16(m.sp + 1),
              !.stack[U16(m.sp + 1)] = m.pc,
              !.pc = nnn]

_0x3000(m, x, nn) ==
    [m EXCEPT !.pc = IF m.v[x] = nn THEN U16(m.pc + 4) ELSE U16(m.pc + 2)]

_0x4000(m, x, nn) ==
    [m EXCEPT !.pc = IF m.v[x] # nn THEN U16(m.pc + 4) ELSE U16(m.pc + 2)]

_0x5000(m, x, y) ==
    [m EXCEPT !.pc = IF m.v[x] = m.v[y] THEN U16(m.pc + 4) ELSE U16(m.pc + 2)]

_0x6000(m, x, nn) == [m EXCEPT !.v[x] = nn, !.pc = U16(m.pc + 2)]

_0x7000(m, x, nn) == [m EXCEPT !.v[x] = U8(m.v[x] + nn), !.pc = U16(m.pc + 2)]

_0x0000(m, x, y) == [m EXCEPT !.v[x] = m.v[y], !.pc = U16(m.pc + 2)]

_0x0001(m, x, y) ==
    [m EXCEPT !.v[x] = BitOr(m.v[x], m.v[y]), !.pc = U16(m.pc + 2)]

_0x0002(m, x, y) ==
    [m EXCEPT !.v[x] = BitAnd(m.v[x], m.v[y]), !.pc = U16(m.pc + 2)]

_0x0003(m, x, y) ==
    [m EXCEPT !.v[x] = BitXor(m.v[x], m.v[y]), !.pc = U16(m.pc + 2)]

\* 8XY4 with the carry test off by one (a sum of exactly 255 carries).
_0x0004_carryAt255(m, x, y) ==
    LET f == [m EXCEPT !.v[15] = IF m.v[y] >= 255 - m.v[x] THEN 1 ELSE 0]
    IN  [f EXCEPT !.v[x] = U8(f.v[x] + f.v[y]), !.pc = U16(m.pc + 2)]

\* VF is written first, then VX is read again (after the write to VF) and
\* added to; the two assignments are kept in the order of the Go body.
_0x0004(m, x, y) ==
    LET f == [m EXCEPT !.v[15] = IF m.v[y] > 255 - m.v[x] THEN 1 ELSE 0]
    IN  [f EXCEPT !.v[x] = U8(f.v[x] + f.v[y]), !.pc = U16(m.pc + 2)]

_0x0005(m, x, y) ==
    LET f == [m EXCEPT !.v[15] = IF m.v[y] > m.v[x] THEN 0 ELSE 1]
    IN  [f EXCEPT !.v[x] = U8(f.v[x] + 256 - f.v[y]), !.pc = U16(m.pc + 2)]

_0x0006(m, x, y) ==
    LET s == [m EXCEPT !.v[x] = Shr(m.v[y], 1)]
    IN  [s EXCEPT !.v[15] = BitAnd(s.v[y], 1), !.pc = U16(m.pc + 2)]

\* 8XY7 computing VX - VY, as 8XY5 does, instead of VY - VX.
_0x0007_1_notReversed(m, x, y) ==
    LET f == [m EXCEPT !.v[15] = IF m.v[x] > m.v[y] THEN 0 ELSE 1]
    IN  [f EXCEPT !.v[x] = U8(f.v[x] + 256 - f.v[y]), !.pc = U16(m.pc + 2)]

_0x0007_1(m, x, y) ==
    LET f == [m EXCEPT !.v[15] = IF m.v[x] > m.v[y] THEN 0 ELSE 1]
    IN  [f EXCEPT !.v[x] = U8(f.v[y] + 256 - f.v[x]), !.pc = U16(m.pc + 2)]

_0x000E(m, x, y) ==
    LET s == [m EXCEPT !.v[x] = Shl8(m.v[y], 1)]
    IN  [s EXCEPT !.v[15] = BitAnd(s.v[y], 128), !.pc = U16(m.pc + 2)]

\* 9XY0 skipping when VX = VY, as 5XY0 does.
_0x9000_skipsOnEqual(m, x, y) ==
    [m EXCEPT !.pc = IF m.v[x] = m.v[y] THEN U16(m.pc + 4) ELSE U16(m.pc + 2)]

_0x9000(m, x, y) ==
    [m EXCEPT !.pc = IF m.v[x] # m.v[y] THEN U16(m.pc + 4) ELSE U16(m.pc + 2)]

_0xA000(m, nnn) == [m EXCEPT !.i = nnn, !.pc = U16(m.pc + 2)]

_0xB000(m, nnn) == [m EXCEPT !.pc = U16(U16(nnn + m.v[0]) + 2)]

\* rnd is byte(rand.Float32()*255), a value in 0 .. 254.
_0xC000(m, x, nn, rnd) ==
    [m EXCEPT !.v[x] = BitAnd(rnd, nn), !.pc = U16(m.pc + 2)]

\* drawSprite's two loops, flattened: step k is row k \div 8, column k % 8.
\* A set sprite bit whose index x + xLine + (y + yLine) * 64 is below
\* len(gfx) flips that cell, and sets VF when the cell was 1.
\* The loops of drawSprite turning pixels on instead of flipping them.
RECURSIVE drawLoop_setsPixel(_, _, _, _, _)
drawLoop_setsPixel(m, x, y, height, k) ==
    IF k >= height * 8 THEN m
    ELSE LET yLine == k \div 8
             xLine == k % 8
             pix   == m.memory[U16(m.i + yLine)]
             ind   == U16(x + xLine + U16((y + yLine) * 64))
         IN  IF ind >= GfxSize \/ BitAnd(pix, Shr(128, xLine)) = 0
             THEN drawLoop_setsPixel(m, x, y, height, k + 1)
             ELSE drawLoop_setsPixel(
                      [m EXCEPT !.v[15] = IF m.gfx[ind] = 1 THEN 1 ELSE @,
                                !.gfx[ind] = 1],
                      x, y, height, k + 1)

\* The loops of drawSprite: yLine and xLine are k \div 8 and k % 8.
RECURSIVE drawLoop(_, _, _, _, _)
drawLoop(m, x, y, height, k) ==
    IF k >= height * 8 THEN m
    ELSE LET yLine == k \div 8
             xLine == k % 8
             pix   == m.memory[U16(m.i + yLine)]
             ind   == U16(x + xLine + U16((y + yLine) * 64))
         IN  IF ind >= GfxSize \/ BitAnd(pix, Shr(128, xLine)) = 0
             THEN drawLoop(m, x, y, height, k + 1)
             ELSE drawLoop([m EXCEPT !.v[15] = IF m.gfx[ind] = 1 THEN 1 ELSE @,
                                     !.gfx[ind] = BitXor(@, 1)],
                           x, y, height, k + 1)

\* drawSprite without the reset of VF before the loops.
drawSprite_keepsVF(m, x, y) ==
    LET height == BitAnd(m.opcode, 15)
        drawn  == drawLoop(m, x, y, height, 0)
    IN  [drawn EXCEPT !.drawFlag = TRUE]

drawSprite(m, x, y) ==
    LET height == BitAnd(m.opcode, 15)
        drawn  == drawLoop([m EXCEPT !.v[15] = 0], x, y, height, 0)
    IN  [drawn EXCEPT !.drawFlag = TRUE]

_0xD000(m, x, y) ==
    LET drawn == drawSprite(m, m.v[x], m.v[y])
    IN  [drawn EXCEPT !.pc = U16(m.pc + 2)]

_0x009E(m, x) ==
    IF m.keypad[m.v[x]] = 1
    THEN [m EXCEPT !.pc = U16(m.pc + 4), !.keypad[m.v[x]] = 0]
    ELSE [m EXCEPT !.pc = U16(m.pc + 2)]

\* EXA1 skipping when the key is down (and clearing nothing then).
_0x00A1_skipsOnDown(m, x) ==
    IF m.keypad[m.v[x]] # 0
    THEN [m EXCEPT !.pc = U16(m.pc + 4)]
    ELSE [m EXCEPT !.keypad[m.v[x]] = 0, !.pc = U16(m.pc + 2)]

_0x00A1(m, x) ==
    IF m.keypad[m.v[x]] = 0
    THEN [m EXCEPT !.pc = U16(m.pc + 4)]
    ELSE [m EXCEPT !.keypad[m.v[x]] = 0, !.pc = U16(m.pc + 2)]

_0x0007_2(m, x) == [m EXCEPT !.v[x] = m.delayTimer, !.pc = U16(m.pc + 2)]

\* The range loop stops at the first key that is not 0; the write
\* keypad[v[x]] = 0 after the loop runs whether or not a key was found.
_0x000A(m, x) ==
    LET down  == {k \in 0 .. NumKeys - 1 : m.keypad[k] # 0}
        first == CHOOSE k \in down : \A j \in down : k <= j
        found == IF down = {} THEN m
                 ELSE [m EXCEPT !.v[x] = first, !.pc = U16(m.pc + 2)]
    IN  [found EXCEPT !.keypad[found.v[x]] = 0]

_0x0015(m, x) == [m EXCEPT !.delayTimer = m.v[x], !.pc = U16(m.pc + 2)]

_0x0018(m, x) == [m EXCEPT !.soundTimer = m.v[x], !.pc = U16(m.pc + 2)]

_0x001E(m, x) == [m EXCEPT !.i = U16(m.i + m.v[x]), !.pc = U16(m.pc + 2)]

_0x0029(m, x) == [m EXCEPT !.i = U16(m.v[x] * 5), !.pc = U16(m.pc + 2)]

\* FX33 storing VX / 10 as the tens digit, not reduced mod 10.
_0x0033_tensUnreduced(m, x) ==
    LET a == [m EXCEPT !.memory[U16(m.i)] = m.v[x] \div 100]
        b == [a EXCEPT !.memory[U16(m.i + 1)] = m.v[x] \div 10]
    IN  [b EXCEPT !.memory[U16(m.i + 2)] = (m.v[x] % 100) % 10,
                  !.pc = U16(m.pc + 2)]

_0x0033(m, x) ==
    LET a == [m EXCEPT !.memory[U16(m.i)] = m.v[x] \div 100]
        b == [a EXCEPT !.memory[U16(m.i + 1)] = (m.v[x] \div 10) % 10]
    IN  [b EXCEPT !.memory[U16(m.i + 2)] = (m.v[x] % 100) % 10,
                  !.pc = U16(m.pc + 2)]

\* FX65 loading V0 .. VX-1 only.
_0x0065_exclusive(m, x) ==
    [m EXCEPT !.v = [r \in 0 .. 15 |->
                        IF r < x THEN m.memory[U16(m.i + r)] ELSE m.v[r]],
              !.pc = U16(m.pc + 2)]

_0x0065(m, x) ==
    [m EXCEPT !.v = [r \in 0 .. 15 |->
                        IF r <= x THEN m.memory[U16(m.i + r)] ELSE m.v[r]],
              !.pc = U16(m.pc + 2)]

_0x0055(m, x) ==
    [m EXCEPT !.memory = [a \in 0 .. MemSize - 1 |->
                            IF \E r \in 0 .. x : U16(m.i + r) = a
                            THEN m.v[CHOOSE r \in 0 .. x : U16(m.i + r) = a]
                            ELSE m.memory[a]],
              !.pc = U16(m.pc + 2)]

----------------------------------------------------------------------------
(* Fetch, decode and dispatch: emulateCycle and parseOpcode.               *)

\* The operand fields parseOpcode extracts from the opcode word.
DecodeX(op)   == Shr(BitAnd(op, 3840), 8)
DecodeY(op)   == Shr(BitAnd(op, 240), 4)
DecodeNN(op)  == U8(BitAnd(op, 255))
DecodeNNN(op) == BitAnd(op, 4095)
Family(op)    == BitAnd(op, 61440)

\* The error values of parseOpcode: nil, or the error unknownOp builds from
\* the masked opcode it is given.
NoErr == <<>>
unknownOp(pattern) == <<"unknown opcode", pattern>>

\* The word emulateCycle fetches at pc: high byte first.
FetchWord(m) == BitOr(m.memory[m.pc] * 256, m.memory[U16(m.pc + 1)])

\* The fetch indexes memory[pc] and memory[pc+1]; Go panics on an index
\* outside the array.
FetchPanics(m) == m.pc >= MemSize \/ U16(m.pc + 1) >= MemSize

\* The handlers index stack, memory and keypad with unchecked values; these
\* are the states in which the handler of opcode op panics.
ExecPanics(m, op) ==
    LET x   == DecodeX(op)
        fam == Family(op)
        low == BitAnd(op, 255)
    IN  \/ fam = 0 /\ low = 238 /\ m.sp >= StackSize
        \/ fam = 8192 /\ U16(m.sp + 1) >= StackSize
        \/ fam = 53248
              /\ \E yLine \in 0 .. BitAnd(op, 15) - 1 :
                    U16(m.i + yLine) >= MemSize
        \/ fam = 57344 /\ low \in {158, 161} /\ m.v[x] >= NumKeys
        \/ fam = 61440 /\ low = 10
              /\ (\A k \in 0 .. NumKeys - 1 : m.keypad[k] = 0)
              /\ m.v[x] >= NumKeys
        \/ fam = 61440 /\ low = 51
              /\ \E d \in 0 .. 2 : U16(m.i + d) >= MemSize
        \/ fam = 61440 /\ low \in {85, 101}
              /\ \E r \in 0 .. x : U16(m.i + r) >= MemSize

CyclePanics(m) == FetchPanics(m) \/ ExecPanics(m, FetchWord(m))

\* parseOpcode: the VM after the handler the opcode selects, and the error
\* returned.  An unknown opcode calls no handler.
parseOpcode(m, rnd) ==
    LET op  == m.opcode
        x   == DecodeX(op)
        y   == DecodeY(op)
        nn  == DecodeNN(op)
        nnn == DecodeNNN(op)
        fam == Family(op)
        low == BitAnd(op, 255)
        n   == BitAnd(op, 15)
        ok(r) == [vm |-> r, err |-> NoErr]
        bad(pattern) == [vm |-> m, err |-> unknownOp(pattern)]
    IN  CASE fam = 0 ->
                 CASE low = 224 -> ok(_0x00E0(m))
                   [] low = 238 -> ok(_0x00EE(m))
                   [] OTHER -> bad(low)
          [] fam = 4096  -> ok(_0x1000(m, nnn))
          [] fam = 8192  -> ok(_0x2000(m, nnn))
          [] fam = 12288 -> ok(_0x3000(m, x, nn))
          [] fam = 16384 -> ok(_0x4000(m, x, nn))
          [] fam = 20480 -> ok(_0x5000(m, x, y))
          [] fam = 24576 -> ok(_0x6000(m, x, nn))
          [] fam = 28672 -> ok(_0x7000(m, x, nn))
          [] fam = 32768 ->
                 CASE n = 0  -> ok(_0x0000(m, x, y))
                   [] n = 1  -> ok(_0x0001(m, x, y))
                   [] n = 2  -> ok(_0x0002(m, x, y))
                   [] n = 3  -> ok(_0x0003(m, x, y))
                   [] n = 4  -> ok(_0x0004(m, x, y))
                   [] n = 5  -> ok(_0x0005(m, x, y))
                   [] n = 6  -> ok(_0x0006(m, x, y))
                   [] n = 7  -> ok(_0x0007_1(m, x, y))
                   [] n = 14 -> ok(_0x000E(m, x, y))
                   [] OTHER -> bad(n)
          [] fam = 36864 -> ok(_0x9000(m, x, y))
          [] fam = 40960 -> ok(_0xA000(m, nnn))
          [] fam = 45056 -> ok(_0xB000(m, nnn))
          [] fam = 49152 -> ok(_0xC000(m, x, nn, rnd))
          [] fam = 53248 -> ok(_0xD000(m, x, y))
          [] fam = 57344 ->
                 CASE low = 158 -> ok(_0x009E(m, x))
                   [] low = 161 -> ok(_0x00A1(m, x))
                   [] OTHER -> bad(low)
          [] fam = 61440 ->
                 CASE low = 7   -> ok(_0x0007_2(m, x))
                   [] low = 10  -> ok(_0x000A(m, x))
                   [] low = 21  -> ok(_0x0015(m, x))
                   [] low = 24  -> ok(_0x0018(m, x))
                   [] low = 30  -> ok(_0x001E(m, x))
                   [] low = 41  -> ok(_0x0029(m, x))
                   [] low = 51  -> ok(_0x0033(m, x))
                   [] low = 85  -> ok(_0x0055(m, x))
                   [] low = 101 -> ok(_0x0065(m, x))
                   [] OTHER -> bad(low)
          [] OTHER -> bad(low)

\* emulateCycle: fetch the word at pc, clear drawFlag, run parseOpcode; an
\* error is printed and the cycle returns.
emulateCycle(m, rnd) ==
    parseOpcode([m EXCEPT !.opcode = FetchWord(m), !.drawFlag = FALSE], rnd)

----------------------------------------------------------------------------
(* The steps of one iteration of Run after emulateCycle.                   *)

\* delayTimerTick decrementing without the test for 0.
delayTimerTick_wraps(m) == [m EXCEPT !.delayTimer = U8(m.delayTimer + 255)]

delayTimerTick(m) ==
    IF m.delayTimer > 0 THEN [m EXCEPT !.delayTimer = m.delayTimer - 1] ELSE m

\* An audio event on every tick of a running sound timer.
AudioEventDue_everyTick(m) == m.soundTimer > 0

\* soundTimerTick sends on audioC when the sound timer is 1, then decrements.
AudioEventDue(m) == m.soundTimer > 0 /\ m.soundTimer = 1

soundTimerTick(m) ==
    IF m.soundTimer > 0 THEN [m EXCEPT !.soundTimer = m.soundTimer - 1] ELSE m

\* drawOrUpdate: DrawGraphics when drawFlag is set, UpdateInput otherwise.
drawOrUpdate(m) == IF m.drawFlag THEN "DrawGraphics" ELSE "UpdateInput"

\* Both DrawGraphics (through Update) and UpdateInput poll the keyboard:
\* the input polled before becomes the previous input, inp the current one.
PollInput(w, inp) == [w EXCEPT !.prevInp = w.currInp, !.currInp = inp]

JustPressed(w, k)  == k \in w.currInp /\ k \notin w.prevInp
JustReleased(w, k) == k \notin w.currInp /\ k \in w.prevInp

\* handleKeyInput for one key k: the effect on the key's repeat ticker ...
KeyTickerAfter(w, k) ==
    IF JustReleased(w, k) /\ k \in w.KeysDown THEN FALSE
    ELSE IF JustPressed(w, k) THEN TRUE
    ELSE k \in w.KeysDown

\* ... and whether setKeyDown(k) is called: on a press, or when the key's
\* ticker (still there after the first branch) has a tick to deliver.
KeySetDown(w, k) ==
    \/ ~(JustReleased(w, k) /\ k \in w.KeysDown) /\ JustPressed(w, k)
    \/ KeyTickerAfter(w, k) /\ k \in w.KeysDown /\ k \in w.tickReady

handleKeyInputWindow(w) ==
    [w EXCEPT !.KeysDown  = {k \in 0 .. NumKeys - 1 : KeyTickerAfter(w, k)},
              !.tickReady = {}]

\* handleKeyInput clearing the keypad entry of a key that was released.
handleKeyInput_clearsOnRelease(m, w) ==
    [m EXCEPT !.keypad = [k \in 0 .. NumKeys - 1 |->
                            IF KeySetDown(w, k) THEN 1
                            ELSE IF JustReleased(w, k) THEN 0
                            ELSE m.keypad[k]]]

handleKeyInput(m, w) ==
    [m EXCEPT !.keypad = [k \in 0 .. NumKeys - 1 |->
                            IF KeySetDown(w, k) THEN 1 ELSE m.keypad[k]]]

----------------------------------------------------------------------------
(* Bounds of the model.                                                    *)

\* Byte operands: 0 .. MaxByteLo, 255 - MaxByteLo .. 255, and 127, 128.
MaxByteLo == 1

SampleBytes ==
    (0 .. MaxByteLo) \cup (255 - MaxByteLo .. 255) \cup {127, 128}
\* rand.Float32 returns a value in [0, 1), so byte(rand.Float32()*255) is
\* any byte in 0 .. 254.
RandBytes == 0 .. 254

----------------------------------------------------------------------------
(* Programs.  A program is a sequence of opcode words; the ROM file holds  *)
(* each word high byte first.                                              *)

Word(a, b, c, d) == a * 4096 + b * 256 + c * 16 + d
WordNN(a, x, nn) == a * 4096 + x * 256 + nn
WordNNN(a, nnn) == a * 4096 + nnn

RomBytes(ws) ==
    [k \in 1 .. 2 * Len(ws) |->
        IF k % 2 = 1 THEN ws[(k + 1) \div 2] \div 256
        ELSE ws[k \div 2] % 256]

----------------------------------------------------------------------------
(* The goroutines.  runChippy builds the VM, starts ManageAudio and Run     *)
(* and waits on ShutdownC.                                                 *)

InitWith(roms) ==
    /\ \E ws \in roms : vm = NewVM(RomBytes(ws))
    /\ window = [closed |-> FALSE, prevInp |-> {}, currInp |-> {},
                 KeysDown |-> {}, tickReady |-> {}]
    /\ audioC = "open"
    /\ runPc = "select"
    /\ audioPc = "start"
    /\ mainPc = "recv"
    /\ obs = [err |-> NoErr, refresh |-> "none", audioDue |-> 0,
              soundSet |-> 0, calls |-> <<>>, lastDraw |-> <<>>,
              lastStore |-> <<>>]

Alive == mainPc = "recv" /\ runPc # "panic"

\* Run starting a cycle at every tick, the window open or closed.
ClockTick_ignoresClose ==
    /\ Alive /\ runPc = "select"
    /\ runPc' = "emulateCycle"
    /\ UNCHANGED <<vm, window, audioC, audioPc, mainPc, obs>>

\* Run's select takes a tick of the clock: a cycle starts if the window is
\* open, otherwise the loop is left.
ClockTick ==
    /\ Alive /\ runPc = "select"
    /\ runPc' = IF ~window.closed THEN "emulateCycle" ELSE "signalShutdown"
    /\ UNCHANGED <<vm, window, audioC, audioPc, mainPc, obs>>

\* What the cycle adds to the record of open calls: 2NNN opens one at the
\* address and depth it was executed at, 00EE closes the innermost.
CallsAfter(calls, m, op) ==
    IF Family(op) = 8192
    THEN Append(calls, [addr |-> m.pc, depth |-> m.sp])
    ELSE IF Family(op) = 0 /\ BitAnd(op, 255) = 238 /\ calls # <<>>
    THEN SubSeq(calls, 1, Len(calls) - 1)
    ELSE calls

\* The cells of the framebuffer that are on.
Lit(gfx) == {ind \in 0 .. GfxSize - 1 : gfx[ind] = 1}

\* What the cycle leaves in the record of the last draw: a DXYN leaves its
\* coordinates, I, height and the cells that were on before it; any other
\* instruction empties the record.
DrawAfter(m, op) ==
    IF Family(op) = 53248
    THEN << [vx |-> m.v[DecodeX(op)], vy |-> m.v[DecodeY(op)], i |-> m.i,
             n |-> BitAnd(op, 15), lit |-> Lit(m.gfx)] >>
    ELSE <<>>

IsFX33(op) == Family(op) = 61440 /\ BitAnd(op, 255) = 51
IsFX55(op) == Family(op) = 61440 /\ BitAnd(op, 255) = 85
IsFX65(op) == Family(op) = 61440 /\ BitAnd(op, 255) = 101

\* What the cycle leaves in the record of the last store: FX55 leaves its
\* X, I and the registers; FX33, which writes memory too, empties it.
StoreAfter(last, m, op) ==
    IF IsFX55(op) THEN << [x |-> DecodeX(op), i |-> m.i, v |-> m.v] >>
    ELSE IF IsFX33(op) THEN <<>>
    ELSE last

\* rand.Float32 is called by the handler of CXNN only.
RandomDraws(op) == IF Family(op) = 49152 THEN RandBytes ELSE {0}

IsFX18(op) == Family(op) = 61440 /\ BitAnd(op, 255) = 24

EmulateCycle ==
    /\ Alive /\ runPc = "emulateCycle"
    /\ IF CyclePanics(vm)
       THEN /\ runPc' = "panic"
            /\ UNCHANGED <<vm, obs>>
       ELSE \E rnd \in RandomDraws(FetchWord(vm)) :
              LET r  == emulateCycle(vm, rnd)
                  op == r.vm.opcode
              IN  /\ vm' = r.vm
                  /\ runPc' = "drawOrUpdate"
                  /\ obs' = [obs EXCEPT
                        !.err = r.err,
                        !.calls = IF r.err = NoErr
                                  THEN CallsAfter(@, vm, op) ELSE @,
                        !.lastDraw = IF r.err = NoErr
                                     THEN DrawAfter(vm, op) ELSE <<>>,
                        !.lastStore = IF r.err = NoErr
                                      THEN StoreAfter(@, vm, op) ELSE @,
                        !.audioDue = IF r.err = NoErr /\ IsFX18(op)
                                     THEN 0 ELSE @,
                        !.soundSet = IF r.err = NoErr /\ IsFX18(op)
                                     THEN r.vm.soundTimer ELSE @]
    /\ UNCHANGED <<window, audioC, audioPc, mainPc>>

\* keys: the keys the user may hold down when the window polls its input.
DrawOrUpdate(keys) ==
    /\ Alive /\ runPc = "drawOrUpdate"
    /\ \E inp \in SUBSET keys : window' = PollInput(window, inp)
    /\ obs' = [obs EXCEPT !.refresh = drawOrUpdate(vm)]
    /\ runPc' = "handleKeyInput"
    /\ UNCHANGED <<vm, audioC, audioPc, mainPc>>

HandleKeyInput ==
    /\ Alive /\ runPc = "handleKeyInput"
    /\ vm' = handleKeyInput(vm, window)
    /\ window' = handleKeyInputWindow(window)
    /\ runPc' = "delayTimerTick"
    /\ UNCHANGED <<audioC, audioPc, mainPc, obs>>

\* Run calling delayTimerTick twice in one iteration.
DelayTimerTick_twice ==
    /\ Alive /\ runPc = "delayTimerTick"
    /\ vm' = delayTimerTick(delayTimerTick(vm))
    /\ runPc' = "soundTimerTick"
    /\ UNCHANGED <<window, audioC, audioPc, mainPc, obs>>

DelayTimerTick ==
    /\ Alive /\ runPc = "delayTimerTick"
    /\ vm' = delayTimerTick(vm)
    /\ runPc' = "soundTimerTick"
    /\ UNCHANGED <<window, audioC, audioPc, mainPc, obs>>

\* audioC is unbuffered: the send of soundTimerTick completes only with
\* ManageAudio waiting in its range loop.
AudioReceiverReady == audioC = "open" /\ audioPc = "range"

SoundTimerTick ==
    /\ Alive /\ runPc = "soundTimerTick"
    /\ IF AudioEventDue(vm)
       THEN /\ AudioReceiverReady
            /\ audioPc' = "play"
            /\ obs' = [obs EXCEPT !.audioDue = @ + 1]
       ELSE UNCHANGED <<audioPc, obs>>
    /\ vm' = soundTimerTick(vm)
    /\ runPc' = "select"
    /\ UNCHANGED <<window, audioC, mainPc>>

\* signalShutdown without the close of audioC.
SignalShutdown_leavesOpen ==
    /\ Alive /\ runPc = "signalShutdown"
    /\ runPc' = "sendShutdown"
    /\ UNCHANGED <<vm, window, audioC, audioPc, mainPc, obs>>

\* signalShutdown, first half: the message is printed and audioC closed.
SignalShutdown ==
    /\ Alive /\ runPc = "signalShutdown"
    /\ audioC' = "closed"
    /\ runPc' = IF audioC = "closed" THEN "panic" ELSE "sendShutdown"
    /\ UNCHANGED <<vm, window, audioPc, mainPc, obs>>

\* signalShutdown, second half: the send on the unbuffered ShutdownC meets
\* the receive runChippy is blocked in; runChippy returns.
ShutdownHandoff ==
    /\ runPc = "sendShutdown" /\ mainPc = "recv"
    /\ runPc' = "done"
    /\ mainPc' = "returned"
    /\ UNCHANGED <<vm, window, audioC, audioPc, obs>>

\* ManageAudio opens and decodes assets/beep.mp3; if either fails it
\* returns, otherwise it initialises the speaker and enters its range loop.
AudioStart ==
    /\ Alive /\ audioPc = "start"
    /\ \E ok \in BOOLEAN : audioPc' = IF ok THEN "range" ELSE "returned"
    /\ UNCHANGED <<vm, window, audioC, runPc, mainPc, obs>>

\* speaker.Play returns and the loop goes back to its receive.
AudioPlay ==
    /\ Alive /\ audioPc = "play"
    /\ audioPc' = "range"
    /\ UNCHANGED <<vm, window, audioC, runPc, mainPc, obs>>

\* The range loop ends when audioC is closed.
AudioClosed ==
    /\ audioPc = "range" /\ audioC = "closed"
    /\ audioPc' = "returned"
    /\ UNCHANGED <<vm, window, audioC, runPc, mainPc, obs>>

\* The user closes the window.
CloseWindow ==
    /\ Alive /\ ~window.closed
    /\ window' = [window EXCEPT !.closed = TRUE]
    /\ UNCHANGED <<vm, audioC, runPc, audioPc, mainPc, obs>>

\* The repeat ticker of a held key delivers a tick (its channel holds one).
KeyTickerFires ==
    /\ Alive
    /\ \E k \in window.KeysDown \ window.tickReady :
          window' = [window EXCEPT !.tickReady = @ \cup {k}]
    /\ UNCHANGED <<vm, audioC, runPc, audioPc, mainPc, obs>>

----------------------------------------------------------------------------
(* Arithmetic programs: load VX and VY, then one 8XYN instruction.          *)

\* 8XY4, 8XY5, 8XY6, 8XY7 and 8XYE.
AluOps == {4, 5, 6, 7, 14}

\* The register pairs <<X, Y>>: distinct, equal, and with VF on either side.
RegPairs ==
    { <<0, 1>>, <<1, 0>>, <<1, 1>>, <<14, 0>>, <<0, 14>>, <<14, 14>>,
      <<15, 1>>, <<1, 15>>, <<15, 15>> }

AluRoms ==
    { <<WordNN(6, p[1], a), WordNN(6, p[2], b), Word(8, p[1], p[2], n)>> :
        p \in RegPairs, a \in SampleBytes, b \in SampleBytes, n \in AluOps }

InitAlu == InitWith(AluRoms)

\* The steps of the Run loop, with no key touched and the window left
\* open.  Run meets ManageAudio only in the send of soundTimerTick, so
\* this is the whole next-state relation only for programs that never take
\* the sound timer to 1; programs that write the sound timer run with the
\* steps of ManageAudio as well (NextTimers, NextRun).
NextCycle ==
    \/ ClockTick
    \/ EmulateCycle
    \/ DrawOrUpdate({})
    \/ HandleKeyInput
    \/ DelayTimerTick
    \/ SoundTimerTick

SpecAlu == InitAlu /\ [][NextCycle]_vars

----------------------------------------------------------------------------
(* Programs of calls and returns.                                          *)

\* A program given by the words at some even addresses from 0x200 up; the
\* words between them are 0.
Placed(parts) ==
    LET addrs == {q[1] : q \in parts}
        top   == CHOOSE a \in addrs : \A b \in addrs : b <= a
    IN  [k \in 1 .. (top - RomBase) \div 2 + 1 |->
            LET here == {q \in parts : q[1] = RomBase + 2 * (k - 1)}
            IN  IF here = {} THEN 0 ELSE (CHOOSE q \in here : TRUE)[2]]

\* Deepest recursion the recursive program is started with.
MaxNest == 15

Ret == 238

\* Jump to the call site c (when it is not 0x200), call t from there, and
\* return at once.
CallSites == {512, 514, 768, 4088}
CallTargets == {520, 1024, 4092}

CallReturnRoms ==
    { Placed({<<512, WordNNN(1, c)>>, <<c, WordNNN(2, t)>>, <<t, Ret>>}
             \ (IF c = 512 THEN {<<512, WordNNN(1, c)>>} ELSE {})) :
        c \in CallSites, t \in CallTargets }

\* V0 = d; call f; f calls itself until V0 is 0, then every call returns:
\*   200: 60dd   202: 2206   204: 0000
\*   206: 3000   208: 120C   20A: 00EE
\*   20C: 70FF   20E: 2206   210: 00EE
RecursionRoms ==
    { <<WordNN(6, 0, d), WordNNN(2, 518), 0,
        WordNN(3, 0, 0), WordNNN(1, 524), Ret,
        WordNN(7, 0, 255), WordNNN(2, 518), Ret>> : d \in 0 .. MaxNest }

\* Three distinct call sites nested, with a second call made from the
\* middle one after the innermost has returned:
\*   200: 2206   202: 0000
\*   206: 220C   208: 2210   20A: 00EE
\*   20C: 2210   20E: 00EE   210: 00EE
NestedRoms ==
    { <<WordNNN(2, 518), 0, 0,
        WordNNN(2, 524), WordNNN(2, 528), Ret,
        WordNNN(2, 528), Ret, Ret>> }

\* A return with no call open, and a call made after it.
UnderflowRoms == { <<Ret>>, <<WordNNN(1, 516), 0, Ret>> }

\* V0 = b; jump to NNN + V0:   200: 60bb  202: Bnnn
JumpTargets == {0, 518, 768, 4095}
JumpRoms ==
    { <<WordNN(6, 0, b), WordNNN(11, t)>> :
        b \in SampleBytes, t \in JumpTargets }

FlowRoms ==
    CallReturnRoms \cup RecursionRoms \cup NestedRoms \cup UnderflowRoms
        \cup JumpRoms

InitFlow == InitWith(FlowRoms)

SpecFlow == InitFlow /\ [][NextCycle]_vars

----------------------------------------------------------------------------
(* Programs that use the sound timer, run with all three goroutines, a     *)
(* window the user may close, and ManageAudio free to fail at start.       *)

\* Largest value the programs write to the sound timer.
MaxSound == 3

\* V0 = n; sound timer = V0; then spin:   200: 60nn  202: F018  204: 1204
BeepOnceRoms ==
    { <<WordNN(6, 0, n), WordNN(15, 0, 24), WordNNN(1, 516)>> :
        n \in 0 .. MaxSound }

\* The timer is written again on every second cycle:
\*   200: 60nn  202: F018  204: 1202
BeepAgainRoms ==
    { <<WordNN(6, 0, n), WordNN(15, 0, 24), WordNNN(1, 514)>> :
        n \in 1 .. MaxSound }

\* An unknown opcode first (the zero word), and the empty program.
RunRoms == BeepOnceRoms \cup BeepAgainRoms \cup { <<0, WordNNN(1, 512)>> }

InitRun == InitWith(RunRoms)

NextRun ==
    \/ NextCycle
    \/ SignalShutdown
    \/ ShutdownHandoff
    \/ AudioStart
    \/ AudioPlay
    \/ AudioClosed
    \/ CloseWindow

SpecRun == InitRun /\ [][NextRun]_vars

\* The same with the goroutines scheduled: runChippy, blocked in its
\* receive, takes the shutdown signal once Run offers it, and ManageAudio
\* goes on whenever speaker.Play has returned or its range loop has found
\* the channel closed.
FairRun ==
    /\ SpecRun
    /\ WF_vars(ShutdownHandoff)
    /\ WF_vars(AudioPlay)
    /\ WF_vars(AudioClosed)

----------------------------------------------------------------------------
(* Programs that draw sprites and clear the screen.                        *)

\* Most rows a drawn sprite has.
MaxRows == 2

\* Screen coordinates the sprites are drawn at: inside the screen, across
\* its right and bottom edges, and beyond them.
XCoords == {0, 1, 56, 57, 60, 63, 64, 255}
YCoords == {0, 30, 31, 32, 255}

\* The sprite rows FF 81 F0 0F, kept in the program after its code.
SpriteData == <<65409, 61455>>

\* V0 = vx; V1 = vy; I = sprite; draw n rows at (V0, V1) twice; spin:
\*   200: 60xx  202: 61yy  204: A20C  206: D01n  208: D01n  20A: 120A
\*   20C: FF81  20E: F00F
DrawRoms ==
    { <<WordNN(6, 0, vx), WordNN(6, 1, vy), WordNNN(10, 524),
        Word(13, 0, 1, n), Word(13, 0, 1, n), WordNNN(1, 522)>>
        \o SpriteData :
        vx \in XCoords, vy \in YCoords, n \in 0 .. MaxRows }

\* Draw n rows of the glyph at I = 0 in the top left corner, clear the
\* screen, load a register, spin:
\*   200: D00n  202: 00E0  204: 6001  206: 1206
ClearRoms ==
    { <<Word(13, 0, 0, n), 224, WordNN(6, 0, 1), WordNNN(1, 518)>> :
        n \in 0 .. MaxRows }

\* Horizontal offsets of the second sprite: on top of the first, half over
\* it, beside it.
Offsets == {0, 4, 8}

\* VF = 1; V1 = dx; I = sprite; draw n rows at (0, 0), then twice at
\* (dx, 0):
\*   200: 6F01  202: 61dd  204: A20E  206: D00n  208: D10n  20A: D10n
\*   20C: 120C  20E: FF81  210: F00F
OverlapRoms ==
    { <<WordNN(6, 15, 1), WordNN(6, 1, dx), WordNNN(10, 526),
        Word(13, 0, 0, n), Word(13, 1, 0, n), Word(13, 1, 0, n),
        WordNNN(1, 524)>>
        \o SpriteData :
        dx \in Offsets, n \in 0 .. MaxRows }

\* Clear the screen inside a subroutine, with registers, I, the delay
\* timer and the stack in use and n rows of the glyph at I = 5 drawn:
\*   200: 6A07  202: FA15  204: A005  206: 220A  208: 1208
\*   20A: DA0n  20C: 00E0  20E: 00EE
BusyClearRoms ==
    { <<WordNN(6, 10, 7), WordNN(15, 10, 21), WordNNN(10, 5),
        WordNNN(2, 522), WordNNN(1, 520),
        Word(13, 10, 0, n), 224, Ret>> : n \in 0 .. MaxRows }

DrawingRoms == DrawRoms \cup ClearRoms \cup OverlapRoms \cup BusyClearRoms

InitDraw == InitWith(DrawingRoms)

SpecDraw == InitDraw /\ [][NextCycle]_vars

----------------------------------------------------------------------------
(* Construction: runChippy calls NewVM on the ROM file before it starts    *)
(* the goroutines.                                                         *)

\* Most bytes a ROM file has beyond maxRomSize.
MaxOver == 1

RomLengths ==
    {0, 1, 2, 3, maxRomSize - 1} \cup (maxRomSize .. maxRomSize + MaxOver)

\* A ROM file of len bytes: 12 00 (spin at 0x200), then the byte b repeated.
FilledRom(len, b) ==
    [k \in 1 .. len |-> IF k = 1 THEN 18 ELSE IF k = 2 THEN 0 ELSE b]

\* NewVM has built the VM struct and is about to load the font set and the
\* file at pathToROM, which may be unreadable.
InitLoad ==
    /\ vm = ZeroVM
    /\ window = [closed |-> FALSE, prevInp |-> {}, currInp |-> {},
                 KeysDown |-> {}, tickReady |-> {}]
    /\ audioC = "open"
    /\ runPc = "select"
    /\ audioPc = "start"
    /\ mainPc = "NewVM"
    /\ \E len \in RomLengths, b \in SampleBytes, unreadable \in BOOLEAN :
          obs = [err |-> NoErr, refresh |-> "none", audioDue |-> 0,
                 soundSet |-> 0, calls |-> <<>>, lastDraw |-> <<>>,
                 lastStore |-> <<>>, rom |-> FilledRom(len, b), readErr |-> unreadable]

\* The rest of NewVM: loadFontSet, then loadROM, which returns the error
\* of ReadFile, panics on a file that is too large, and otherwise copies
\* it; runChippy exits on an error and goes on to start Run otherwise.
RunChippyNewVM ==
    /\ mainPc = "NewVM"
    /\ IF obs.readErr
       THEN /\ mainPc' = "error"
            /\ vm' = loadFontSet(vm)
       ELSE IF RomTooLarge(obs.rom)
       THEN /\ mainPc' = "panic"
            /\ vm' = loadFontSet(vm)
       ELSE /\ mainPc' = "recv"
            /\ vm' = loadROM(loadFontSet(vm), obs.rom)
    /\ UNCHANGED <<window, audioC, runPc, audioPc, obs>>

NextLoad == RunChippyNewVM \/ NextCycle

SpecLoad == InitLoad /\ [][NextLoad]_vars

----------------------------------------------------------------------------
(* Programs that read the keypad, run with a user at the keyboard.         *)

\* The keys the user presses and releases.
PressKeys == {0, 1}

\* Values of the register that names the key.
KeyValues == {0, 1, 15, 16, 255}

\* V3 = kk; wait for a key into V3; spin:   200: 63kk  202: F30A  204: 1204
WaitRoms ==
    { <<WordNN(6, 3, kk), WordNN(15, 3, 10), WordNNN(1, 516)>> :
        kk \in KeyValues }

\* V0 = kk; poll key V0 until the skip is taken:
\*   200: 60kk  202: E09E or E0A1  204: 1202  206: 1206
SkipRoms ==
    { <<WordNN(6, 0, kk), WordNN(14, 0, low), WordNNN(1, 514),
        WordNNN(1, 518)>> :
        kk \in KeyValues, low \in {158, 161} }

InitKeys == InitWith(WaitRoms \cup SkipRoms)

NextKeys ==
    \/ ClockTick
    \/ EmulateCycle
    \/ DrawOrUpdate(PressKeys)
    \/ HandleKeyInput
    \/ DelayTimerTick
    \/ SoundTimerTick
    \/ KeyTickerFires

SpecKeys == InitKeys /\ [][NextKeys]_vars

----------------------------------------------------------------------------
(* Programs that set both timers, run with ManageAudio.                    *)

\* Largest value the programs write to a timer.
MaxTimer == 2

\* V0 = a; V1 = b; delay timer = V0; sound timer = V1; spin:
\*   200: 60aa  202: 61bb  204: F015  206: F118  208: 1208
TimerRoms ==
    { <<WordNN(6, 0, a), WordNN(6, 1, b), WordNN(15, 0, 21),
        WordNN(15, 1, 24), WordNNN(1, 520)>> :
        a \in 0 .. MaxTimer, b \in 0 .. MaxTimer }

InitTimers == InitWith(TimerRoms)

NextTimers == NextCycle \/ AudioStart \/ AudioPlay

SpecTimers == InitTimers /\ [][NextTimers]_vars

----------------------------------------------------------------------------
(* Programs that store to and load from memory.                            *)

\* Addresses I is set to: free memory, the last 16 bytes, the last 2 bytes.
StoreAddrs == {768, 4080, 4094}

\* V0 = a; V1 = b; I = nnn; store V0 .. VX; overwrite V0 and V1; load
\* V0 .. VX:
\*   200: 60aa  202: 61bb  204: Annn  206: Fx55
\*   208: 6077  20A: 6166  20C: Fx65  20E: 120E
StoreLoadRoms ==
    { <<WordNN(6, 0, a), WordNN(6, 1, b), WordNNN(10, nnn),
        WordNN(15, x, 85), WordNN(6, 0, 119), WordNN(6, 1, 102),
        WordNN(15, x, 101), WordNNN(1, 526)>> :
        a \in {0, 255}, b \in {1, 128}, nnn \in StoreAddrs,
        x \in {0, 1, 15} }

\* V0 = b; I = nnn; store the decimal digits of V0; spin:
\*   200: 60bb  202: Annn  204: F033  206: 1206
\* for every byte at one address, and for some bytes at the last addresses.
BcdAddrs == {4092, 4093, 4094}
BcdRoms ==
    { <<WordNN(6, 0, b), WordNNN(10, 768), WordNN(15, 0, 51),
        WordNNN(1, 518)>> : b \in 0 .. 255 }
    \cup
    { <<WordNN(6, 0, b), WordNNN(10, nnn), WordNN(15, 0, 51),
        WordNNN(1, 518)>> : b \in SampleBytes, nnn \in BcdAddrs }

\* V2 = d; I = glyph of V2; spin:   200: 62dd  202: F229  204: 1204
FontRoms ==
    { <<WordNN(6, 2, d), WordNN(15, 2, 41), WordNNN(1, 516)>> :
        d \in 0 .. 15 }

InitMem == InitWith(StoreLoadRoms \cup BcdRoms \cup FontRoms)

SpecMem == InitMem /\ [][NextCycle]_vars

----------------------------------------------------------------------------
(* One word of every kind, executed with a glyph on the screen, the delay  *)
(* timer running and V0, V1 loaded:                                        *)
(*   200: 60aa  202: 61bb  204: D015  206: 6E03  208: FE15                 *)
(*   20A: the word  20C: 120C  20E: 120E                                   *)

OneWordRom(a, b, w) ==
    << WordNN(6, 0, a), WordNN(6, 1, b), Word(13, 0, 1, 5), WordNN(6, 14, 3),
       WordNN(15, 14, 21), w, WordNNN(1, 524), WordNNN(1, 526) >>

\* 3XNN, 4XNN, 5XY0 and 9XY0, with X = Y too.
SkipWords ==
    { WordNN(3, 0, 1), WordNN(3, 0, 255), WordNN(4, 0, 1), WordNN(4, 0, 255),
      Word(5, 0, 1, 0), Word(5, 1, 1, 0), Word(9, 0, 1, 0), Word(9, 1, 1, 0) }

SkipRoms2 ==
    { OneWordRom(a, b, w) : a \in {0, 1, 255}, b \in {0, 1, 255},
                            w \in SkipWords }

\* Every instruction of the catalogue.
InstructionWords ==
    { 224, 238, WordNNN(1, 526), WordNNN(2, 526) }
    \cup SkipWords
    \cup { WordNN(6, 2, 85), WordNN(7, 0, 5), WordNNN(10, 291),
           WordNNN(11, 522), WordNN(12, 0, 255), Word(13, 0, 1, 5),
           WordNN(14, 0, 158), WordNN(14, 0, 161) }
    \cup { Word(8, 0, 1, n) : n \in (0 .. 7) \cup {14} }
    \cup { WordNN(15, 1, low) : low \in {7, 10, 21, 24, 30, 41, 51, 85, 101} }

\* Words that are in no pattern of the catalogue.
UnknownWords ==
    { 0, 291, 480, 750, Word(5, 0, 1, 1), Word(5, 0, 1, 15),
      Word(9, 0, 1, 1), WordNN(14, 0, 0), WordNN(14, 0, 159),
      WordNN(14, 1, 162), WordNN(15, 0, 0), WordNN(15, 1, 8),
      WordNN(15, 0, 255), WordNN(15, 1, 102) }
    \cup { Word(8, 0, 1, n) : n \in (8 .. 13) \cup {15} }

OneWordRoms ==
    SkipRoms2 \cup { OneWordRom(2, 3, w) : w \in InstructionWords \cup UnknownWords }

InitOps == InitWith(OneWordRoms)

\* FX18 is among the words, so ManageAudio runs beside Run.
SpecOps == InitOps /\ [][NextTimers]_vars

----------------------------------------------------------------------------
(* Programs that run into the end of memory, or take I there.              *)

\* The largest ROM file, 3583 bytes, which fills 0x200 .. 0xFFE:
\*   200: 1FFE   300: 00EE   FFE: the byte hi (memory[0xFFF] stays 0)
\* so that the word fetched at 0xFFE is hi 00.
LastWordRom(hi) ==
    [k \in 1 .. maxRomSize |->
        IF k = 1 THEN 31 ELSE IF k = 2 THEN 254
        ELSE IF k = 258 THEN Ret
        ELSE IF k = maxRomSize THEN hi ELSE 0]

\* High bytes of the word at 0xFFE: 6000 (V0 = 0), 3000 (skip, V0 being
\* 0), 2300 (call 0x300, which returns at once).
LastWordHighs == {96, 48, 35}

\* Jump to 0xFFF; a skip taken at 0xFFC; V0 = b, then jump to 0xFFF + V0.
PcEdgeRoms ==
    { <<WordNNN(1, 4095)>>,
      Placed({<<512, WordNNN(1, 4092)>>, <<4092, WordNN(3, 0, 0)>>}) }
    \cup { <<WordNN(6, 0, b), WordNNN(11, 4095)>> : b \in 0 .. MaxByteLo }

\* The instructions that address memory through I: D011, F033, F055, F065.
IndexedWords ==
    { Word(13, 1, 1, 1), WordNN(15, 0, 51), WordNN(15, 0, 85),
      WordNN(15, 0, 101) }

\* I = nnn; V0 = b; I += V0; one instruction that uses I; spin:
\*   200: Annn  202: 60bb  204: F01E  206: the word  208: 1208
IndexEdgeRoms ==
    { <<WordNNN(10, nnn), WordNN(6, 0, b), WordNN(15, 0, 30), w,
        WordNNN(1, 520)>> :
        nnn \in {4093, 4095}, b \in (0 .. MaxByteLo) \cup {255},
        w \in IndexedWords }

EdgeFiles ==
    { RomBytes(ws) : ws \in PcEdgeRoms \cup IndexEdgeRoms }
    \cup { LastWordRom(hi) : hi \in LastWordHighs }

InitEdge ==
    /\ \E rom \in EdgeFiles : ~RomTooLarge(rom) /\ vm = NewVM(rom)
    /\ window = [closed |-> FALSE, prevInp |-> {}, currInp |-> {},
                 KeysDown |-> {}, tickReady |-> {}]
    /\ audioC = "open"
    /\ runPc = "select"
    /\ audioPc = "start"
    /\ mainPc = "recv"
    /\ obs = [err |-> NoErr, refresh |-> "none", audioDue |-> 0,
              soundSet |-> 0, calls |-> <<>>, lastDraw |-> <<>>,
              lastStore |-> <<>>]

SpecEdge == InitEdge /\ [][NextCycle]_vars

----------------------------------------------------------------------------
(* Programs that write the delay timer and read it back in the next cycle, *)
(* run with all three goroutines and a window the user may close.          *)

\* V0 = n; delay timer = V0; V1 = delay timer; sound timer = V0; spin:
\*   200: 60nn  202: F015  204: F107  206: F018  208: 1208
TickRoms ==
    { <<WordNN(6, 0, n), WordNN(15, 0, 21), WordNN(15, 1, 7),
        WordNN(15, 0, 24), WordNNN(1, 520)>> :
        n \in (0 .. MaxTimer + 1) \cup {255} }

InitTick == InitWith(TickRoms)

SpecTick == InitTick /\ [][NextRun]_vars

----------------------------------------------------------------------------
(* Properties of single instructions.  A step of EmulateCycle that does    *)
(* not panic executes the word at pc; vm is the VM before and vm' after.   *)

CycleRuns == runPc = "emulateCycle" /\ runPc' = "drawOrUpdate"
Is8XYN(op, n) == Family(op) = 32768 /\ BitAnd(op, 15) = n
\* The cycle just completed executed word op.
JustRan == runPc = "drawOrUpdate" /\ obs.err = NoErr

\* C1: for all bytes a, b and all X, Y in 0x0 .. 0xE, 8XY4 with VX = a and
\* VY = b leaves VX = (a + b) mod 256, VF = 1 if a + b > 255 and VF = 0
\* otherwise, and advances PC by 2.
C1_AddWithCarry ==
    [][ LET op == FetchWord(vm)
            X  == DecodeX(op)
            Y  == DecodeY(op)
            a  == vm.v[X]
            b  == vm.v[Y]
        IN  (CycleRuns /\ Is8XYN(op, 4) /\ X <= 14 /\ Y <= 14) =>
               /\ vm'.v[X] = (a + b) % 256
               /\ vm'.v[15] = (IF a + b > 255 THEN 1 ELSE 0)
               /\ vm'.pc = vm.pc + 2 ]_vars

\* An 8XY4 with X # Y, both below 0xF, has just added 128 and 255: the sum
\* wrapped to 127 and the carry is set.
C1_Witness ==
    /\ JustRan /\ Is8XYN(vm.opcode, 4)
    /\ DecodeX(vm.opcode) <= 14 /\ DecodeY(vm.opcode) <= 14
    /\ DecodeX(vm.opcode) # DecodeY(vm.opcode)
    /\ vm.v[DecodeY(vm.opcode)] = 255
    /\ vm.v[DecodeX(vm.opcode)] = 127
    /\ vm.v[15] = 1

\* C2: for all bytes a, b and all X, Y in 0x0 .. 0xE, 8XY5 leaves
\* VX = (a - b) mod 256 and VF = 0 iff b > a; 8XY7 leaves VX = (b - a) mod 256
\* and VF = 0 iff a > b; both advance PC by 2.
C2_SubWithBorrow ==
    [][ LET op == FetchWord(vm)
            X  == DecodeX(op)
            Y  == DecodeY(op)
            a  == vm.v[X]
            b  == vm.v[Y]
        IN  /\ (CycleRuns /\ Is8XYN(op, 5) /\ X <= 14 /\ Y <= 14) =>
                  /\ vm'.v[X] = (a - b) % 256
                  /\ vm'.v[15] = (IF b > a THEN 0 ELSE 1)
                  /\ vm'.pc = vm.pc + 2
            /\ (CycleRuns /\ Is8XYN(op, 7) /\ X <= 14 /\ Y <= 14) =>
                  /\ vm'.v[X] = (b - a) % 256
                  /\ vm'.v[15] = (IF a > b THEN 0 ELSE 1)
                  /\ vm'.pc = vm.pc + 2 ]_vars

\* An 8XY7 with X # Y has just computed 1 - 255: VX wrapped to 2 and VF is 0
\* (a borrow).
C2_Witness ==
    /\ JustRan /\ Is8XYN(vm.opcode, 7)
    /\ DecodeX(vm.opcode) <= 14 /\ DecodeY(vm.opcode) <= 14
    /\ DecodeX(vm.opcode) # DecodeY(vm.opcode)
    /\ vm.v[DecodeY(vm.opcode)] = 1
    /\ vm.v[DecodeX(vm.opcode)] = 2
    /\ vm.v[15] = 0

IsCall(op) == Family(op) = 8192
IsRet(op) == Family(op) = 0 /\ BitAnd(op, 255) = Ret

\* C3: a 2NNN that is accepted goes to NNN, and the 00EE that closes it,
\* after any balanced sequence of further calls and returns, leaves PC at
\* the address of the call plus 2 and SP at its value before the call;
\* nested calls are returned from innermost first.
C3_CallThenReturn ==
    [][ LET op == FetchWord(vm)
        IN  /\ (CycleRuns /\ IsCall(op)) => vm'.pc = DecodeNNN(op)
            /\ (CycleRuns /\ IsRet(op) /\ obs.calls # <<>>) =>
                  /\ vm'.pc = obs.calls[Len(obs.calls)].addr + 2
                  /\ vm'.sp = obs.calls[Len(obs.calls)].depth ]_vars

\* A return has just closed the call made at 0x208 from inside the call
\* made at 0x200, after the call made at 0x206 (which itself called from
\* 0x20C) had returned: one call is still open and PC is 0x20A.
C3_Witness ==
    /\ JustRan /\ IsRet(vm.opcode)
    /\ vm.pc = 522 /\ vm.sp = 1
    /\ Len(obs.calls) = 1 /\ obs.calls[1].addr = 512

----------------------------------------------------------------------------
(* Errors, audio and shutdown.                                             *)

\* C4: a cycle that fetches an unrecognized opcode reports the error and
\* leaves PC 2 greater than before, so the same word is not fetched again.
C4_UnknownOpcodeSkipped ==
    [][ (CycleRuns /\ obs'.err # NoErr) => vm'.pc = vm.pc + 2 ]_vars

\* C5: soundTimerTick never blocks Run: when the sound timer is about to
\* go from 1 to 0 the tick can complete, whatever ManageAudio is doing.
C5_SoundTickNeverBlocks ==
    (Alive /\ runPc = "soundTimerTick" /\ AudioEventDue(vm))
        => AudioReceiverReady

\* C6: once FX18 has written n >= 1 to the sound timer, no audio event is
\* sent while the timer is above 0 and exactly one has been sent when it is
\* 0; a sound timer written with 0 sends none.
C6_OneAudioEventPerSet ==
    /\ obs.soundSet >= 1 =>
          obs.audioDue = (IF vm.soundTimer = 0 THEN 1 ELSE 0)
    /\ obs.soundSet = 0 => obs.audioDue = 0

\* FX18 wrote 2, two ticks have passed, and the one event has been sent.
C6_Witness ==
    /\ obs.soundSet = 2 /\ vm.soundTimer = 0 /\ obs.audioDue = 1
    /\ runPc = "select"

LoopLeft == runPc \in {"signalShutdown", "sendShutdown", "done"}

\* C7: Run examines the window only at a clock tick; once it has seen it
\* closed no cycle step runs again (the VM never changes), and every step
\* of a started cycle is followed by the next one, the window open or not.
C7_CooperativeShutdown ==
    [][ /\ LoopLeft => (vm' = vm /\ obs' = obs /\ LoopLeft')
        /\ (runPc = "select" /\ runPc' # runPc) =>
              runPc' = (IF window.closed THEN "signalShutdown"
                        ELSE "emulateCycle")
        /\ (runPc = "emulateCycle" /\ runPc' # runPc) =>
              runPc' \in {"drawOrUpdate", "panic"}
        /\ (runPc = "drawOrUpdate" /\ runPc' # runPc) =>
              runPc' = "handleKeyInput"
        /\ (runPc = "handleKeyInput" /\ runPc' # runPc) =>
              runPc' = "delayTimerTick"
        /\ (runPc = "delayTimerTick" /\ runPc' # runPc) =>
              runPc' = "soundTimerTick"
        /\ (runPc = "soundTimerTick" /\ runPc' # runPc) =>
              runPc' = "select" ]_vars

\* The window was closed while a cycle was running; the cycle went on to
\* its last step, and Run has since left the loop and handed over the
\* shutdown signal.
C7_Witness ==
    /\ window.closed /\ runPc = "done" /\ mainPc = "returned"
    /\ vm.pc # RomBase

\* Run is blocked in the send of soundTimerTick and ManageAudio, the only
\* receiver of audioC, has returned.
RunBlockedForEver ==
    /\ Alive /\ runPc = "soundTimerTick" /\ AudioEventDue(vm)
    /\ audioPc = "returned"

\* C8: with the window closed, Run is never left blocked for ever on a
\* channel operation (so that it goes on to leave its loop, close audioC
\* and hand the signal to runChippy).
C8_ShutdownCompletes == window.closed => ~RunBlockedForEver

----------------------------------------------------------------------------
(* The screen.                                                             *)

\* The cycle just completed executed clear-screen or draw-sprite.
ClearedOrDrew ==
    /\ obs.err = NoErr
    /\ \/ Family(vm.opcode) = 0 /\ BitAnd(vm.opcode, 255) = 224
       \/ Family(vm.opcode) = 53248

\* C9: after each cycle drawFlag is true if and only if the instruction
\* executed was 00E0 or DXYN, and drawOrUpdate redraws the window in exactly
\* those cycles and only polls the input in all others.
C9_RedrawIffClearOrDraw ==
    /\ runPc = "drawOrUpdate" => (vm.drawFlag <=> ClearedOrDrew)
    /\ runPc = "handleKeyInput" =>
          (obs.refresh = "DrawGraphics" <=> ClearedOrDrew)

\* Sprite bit (r, c) of the DXYN word op is set in the VM m.
SpriteBitSet(m, r, c) ==
    BitAnd(m.memory[U16(m.i + r)], Shr(128, c)) # 0

\* C10: DXYN changes a framebuffer cell only if it is the cell
\* (VX + c, VY + r) of a set sprite bit (r, c) with VX + c < 64 and
\* VY + r < 32; bits falling outside the grid change nothing.
C10_DrawClipsWithoutWrap ==
    [][ LET op == FetchWord(vm)
            VX == vm.v[DecodeX(op)]
            VY == vm.v[DecodeY(op)]
            N  == BitAnd(op, 15)
        IN  (CycleRuns /\ Family(op) = 53248) =>
               \A ind \in 0 .. GfxSize - 1 :
                  vm'.gfx[ind] # vm.gfx[ind] =>
                     \E r \in 0 .. N - 1, c \in 0 .. 7 :
                        /\ SpriteBitSet(vm, r, c)
                        /\ VX + c < 64 /\ VY + r < 32
                        /\ ind = (VY + r) * 64 + VX + c ]_vars

IsDraw(op) == Family(op) = 53248
IsClear(op) == Family(op) = 0 /\ BitAnd(op, 255) = 224

\* C11: after DXYN, VF is 1 if and only if some framebuffer cell went from
\* 1 to 0 in that draw, and 0 otherwise, whatever VF held before.
C11_CollisionFlag ==
    [][ LET op == FetchWord(vm)
        IN  (CycleRuns /\ IsDraw(op)) =>
               vm'.v[15] = (IF \E ind \in 0 .. GfxSize - 1 :
                                  vm.gfx[ind] = 1 /\ vm'.gfx[ind] = 0
                            THEN 1 ELSE 0) ]_vars

\* The row FF drawn at (4, 0) over the same row at (0, 0): cells 4 .. 7 went
\* off, cells 8 .. 11 came on, cells 0 .. 3 stayed on, and VF is 1.
C11_Witness ==
    /\ JustRan /\ IsDraw(vm.opcode) /\ vm.pc = 522
    /\ vm.v[1] = 4 /\ BitAnd(vm.opcode, 15) = 1
    /\ vm.gfx[0] = 1 /\ vm.gfx[4] = 0 /\ vm.gfx[8] = 1
    /\ vm.v[15] = 1

\* The DXYN about to run draws the same rows of the same sprite at the same
\* coordinates as the instruction before it.
RepeatsLastDraw(op) ==
    /\ IsDraw(op) /\ obs.lastDraw # <<>>
    /\ obs.lastDraw[1].vx = vm.v[DecodeX(op)]
    /\ obs.lastDraw[1].vy = vm.v[DecodeY(op)]
    /\ obs.lastDraw[1].i = vm.i
    /\ obs.lastDraw[1].n = BitAnd(op, 15)

\* C12: a DXYN repeated with the same I, sprite bytes and coordinates puts
\* the whole framebuffer back as it was before the first draw, and sets
\* VF = 1 whenever the first draw turned on at least one pixel.
C12_DrawTwiceRestores ==
    [][ LET op == FetchWord(vm)
        IN  (CycleRuns /\ RepeatsLastDraw(op)) =>
               /\ Lit(vm'.gfx) = obs.lastDraw[1].lit
               /\ (Lit(vm.gfx) \ obs.lastDraw[1].lit # {}) =>
                     vm'.v[15] = 1 ]_vars

\* The second of two draws of FF at (4, 0), over the row FF at (0, 0): the
\* screen is back to cells 0 .. 7 on, and VF is 1.
C12_Witness ==
    /\ JustRan /\ IsDraw(vm.opcode) /\ vm.pc = 524
    /\ vm.v[1] = 4 /\ BitAnd(vm.opcode, 15) = 1
    /\ Lit(vm.gfx) = 0 .. 7
    /\ obs.lastDraw[1].lit = (0 .. 3) \cup (8 .. 11)
    /\ vm.v[15] = 1

\* C13: 00E0 leaves all 2048 framebuffer cells 0, advances PC by 2, and
\* changes no register, memory byte, stack entry, timer, keypad entry, nor
\* I or SP.
C13_ClearScreen ==
    [][ LET op == FetchWord(vm)
        IN  (CycleRuns /\ IsClear(op)) =>
               /\ \A ind \in 0 .. GfxSize - 1 : vm'.gfx[ind] = 0
               /\ vm'.pc = vm.pc + 2
               /\ vm'.v = vm.v /\ vm'.i = vm.i
               /\ vm'.memory = vm.memory
               /\ vm'.stack = vm.stack /\ vm'.sp = vm.sp
               /\ vm'.delayTimer = vm.delayTimer
               /\ vm'.soundTimer = vm.soundTimer
               /\ vm'.keypad = vm.keypad ]_vars

\* 00E0 has just run inside a subroutine, after two rows of a glyph had
\* been drawn: the screen is empty, and the register, I, the running delay
\* timer and the open call are as they were.
C13_Witness ==
    /\ JustRan /\ IsClear(vm.opcode) /\ vm.pc = 526
    /\ vm.memory[523] = 2
    /\ Lit(vm.gfx) = {}
    /\ vm.v[10] = 7 /\ vm.i = 5 /\ vm.sp = 1 /\ vm.stack[1] = 518
    /\ vm.delayTimer > 0

----------------------------------------------------------------------------
(* The stack and jumps.                                                    *)

\* Run takes the step emulateCycle (to the next step of the cycle, or into
\* a panic).
CycleStep == runPc = "emulateCycle" /\ runPc' # runPc

\* C14: the stack holds 16 return addresses: a 2NNN executed with fewer
\* than 16 calls open succeeds, stores its return address and goes to NNN.
C14_SixteenCallsFit ==
    [][ LET op == FetchWord(vm)
        IN  (CycleStep /\ ~FetchPanics(vm) /\ IsCall(op)
                 /\ vm.sp = Len(obs.calls)
                 /\ Len(obs.calls) < StackSize) =>
               /\ runPc' = "drawOrUpdate"
               /\ vm'.pc = DecodeNNN(op)
               /\ Len(obs'.calls) = Len(obs.calls) + 1
               /\ \E k \in 0 .. StackSize - 1 : vm'.stack[k] = vm.pc ]_vars

\* C15: SP is always a valid depth, and a 00EE on an empty stack or a 2NNN
\* on a full one never wraps SP around nor indexes the stack outside
\* 0 .. 15 (which ends the program in an index-out-of-range panic).
C15_StackGuarded ==
    /\ vm.sp \in 0 .. StackSize
    /\ (runPc = "panic" /\ ~FetchPanics(vm)) =>
          ~ (IsCall(FetchWord(vm)) \/ IsRet(FetchWord(vm)))

\* C16: after BNNN, PC is exactly NNN + V0.
C16_JumpWithOffset ==
    [][ LET op == FetchWord(vm)
        IN  (CycleRuns /\ Family(op) = 45056) =>
               vm'.pc = DecodeNNN(op) + vm.v[0] ]_vars

----------------------------------------------------------------------------
(* Loading the ROM.                                                        *)

\* C17: a ROM file of at most 0xFFF - 0x200 = 3583 bytes is accepted, byte
\* k going to memory[0x200 + k] with the font data below 0x200 as
\* loadFontSet left it; a file of 3584 bytes or more makes NewVM return a
\* ROM-too-large error to its caller, and no VM.
C17_RomSizeLimit ==
    [][ (mainPc = "NewVM" /\ mainPc' # mainPc /\ ~obs.readErr) =>
           IF Len(obs.rom) <= 3583
           THEN /\ mainPc' = "recv"
                /\ \A k \in 0 .. Len(obs.rom) - 1 :
                      vm'.memory[RomBase + k] = obs.rom[k + 1]
                /\ \A a \in 0 .. RomBase - 1 :
                      vm'.memory[a] = (IF a < FontSize THEN FontSet[a + 1]
                                       ELSE 0)
           ELSE mainPc' = "error" ]_vars

----------------------------------------------------------------------------
(* The keypad.                                                             *)

IsFX0A(op) == Family(op) = 61440 /\ BitAnd(op, 255) = 10
IsEX9E(op) == Family(op) = 57344 /\ BitAnd(op, 255) = 158
IsEXA1(op) == Family(op) = 57344 /\ BitAnd(op, 255) = 161

KeysDownIn(m) == {k \in 0 .. NumKeys - 1 : m.keypad[k] # 0}

\* C18: FX0A with a key down leaves the lowest down index in VX and
\* advances PC by 2; with no key down it completes leaving PC, VX and the
\* rest of the VM as they were, so that the same FX0A is fetched again.
C18_WaitForKey ==
    [][ LET op   == FetchWord(vm)
            X    == DecodeX(op)
            down == KeysDownIn(vm)
        IN  (CycleStep /\ ~FetchPanics(vm) /\ IsFX0A(op)) =>
               /\ runPc' = "drawOrUpdate"
               /\ IF down # {}
                  THEN /\ vm'.v[X] \in down
                       /\ \A k \in down : vm'.v[X] <= k
                       /\ vm'.pc = vm.pc + 2
                  ELSE /\ vm'.pc = vm.pc
                       /\ vm' = [vm EXCEPT !.opcode = op,
                                           !.drawFlag = FALSE] ]_vars

\* C19: with VX in 0 .. 15, EX9E advances PC by 4 if keypad[VX] is down and
\* by 2 otherwise, EXA1 by 4 if it is up and by 2 otherwise; a key found
\* down is cleared, and no other keypad entry changes.
C19_SkipOnKey ==
    [][ LET op   == FetchWord(vm)
            VX   == vm.v[DecodeX(op)]
            down == vm.keypad[VX] # 0
        IN  (CycleRuns /\ (IsEX9E(op) \/ IsEXA1(op)) /\ VX <= 15) =>
               /\ vm'.pc = vm.pc + (IF down <=> IsEX9E(op) THEN 4 ELSE 2)
               /\ vm'.keypad = [vm.keypad EXCEPT ![VX] = 0] ]_vars

\* EXA1 on key 0 has just found it down while key 1 was down too: no skip
\* (PC is at the jump back), key 0 is cleared and key 1 is still down.
C19_Witness ==
    /\ JustRan /\ IsEXA1(vm.opcode) /\ vm.v[0] = 0
    /\ vm.pc = 516
    /\ vm.keypad[0] = 0 /\ vm.keypad[1] = 1

\* C20: only EX9E and EXA1 change a keypad entry; every other instruction,
\* FX0A included, leaves all 16 entries as they were, and no instruction
\* sets an entry to down.
C20_OnlySkipsClearKeys ==
    [][ LET op == FetchWord(vm)
        IN  CycleRuns =>
               /\ ~(IsEX9E(op) \/ IsEXA1(op)) => vm'.keypad = vm.keypad
               /\ \A k \in 0 .. NumKeys - 1 :
                     vm'.keypad[k] <= vm.keypad[k] ]_vars

----------------------------------------------------------------------------
(* Shifts, and VF as an operand.                                           *)

\* C28: 8XY6 sets VF to bit 0 of the value VY held before the instruction
\* and VX to that value shifted right by one, for every X and Y, X = Y
\* included.
C28_ShiftRight ==
    [][ LET op == FetchWord(vm)
            X  == DecodeX(op)
            b  == vm.v[DecodeY(op)]
        IN  (CycleRuns /\ Is8XYN(op, 6)) =>
               /\ vm'.v[15] = b % 2
               /\ X # 15 => vm'.v[X] = b \div 2 ]_vars

\* C29: 8XYE sets VX = (VY << 1) mod 256 and VF = 1 if bit 7 of the VY of
\* before the instruction is set, VF = 0 otherwise.
C29_ShiftLeft ==
    [][ LET op == FetchWord(vm)
            X  == DecodeX(op)
            b  == vm.v[DecodeY(op)]
        IN  (CycleRuns /\ Is8XYN(op, 14)) =>
               /\ vm'.v[15] = (IF b >= 128 THEN 1 ELSE 0)
               /\ X # 15 => vm'.v[X] = (2 * b) % 256 ]_vars

\* The flag and the result of 8XYn on VX = a and VY = b.
AluFlag(n, a, b) ==
    CASE n = 4  -> IF a + b > 255 THEN 1 ELSE 0
      [] n = 5  -> IF b > a THEN 0 ELSE 1
      [] n = 6  -> b % 2
      [] n = 7  -> IF a > b THEN 0 ELSE 1
      [] n = 14 -> IF b >= 128 THEN 1 ELSE 0

AluResult(n, a, b) ==
    CASE n = 4  -> (a + b) % 256
      [] n = 5  -> (a - b) % 256
      [] n = 6  -> b \div 2
      [] n = 7  -> (b - a) % 256
      [] n = 14 -> (2 * b) % 256

\* C30: for 8XY4, 8XY5, 8XY6, 8XY7 and 8XYE, with X = 0xF the VF left is
\* the instruction's flag, not the arithmetic result; with Y = 0xF the
\* operand VY is the VF of before the instruction.
C30_FlagWins ==
    [][ LET op == FetchWord(vm)
            X  == DecodeX(op)
            Y  == DecodeY(op)
            n  == BitAnd(op, 15)
            a  == vm.v[X]
            b  == vm.v[Y]
        IN  (CycleRuns /\ Family(op) = 32768 /\ n \in AluOps) =>
               /\ X = 15 => vm'.v[15] = AluFlag(n, a, b)
               /\ (Y = 15 /\ X # 15) => vm'.v[X] = AluResult(n, a, b) ]_vars

----------------------------------------------------------------------------
(* The timers.                                                             *)

\* C21: a timer tick takes 1 from its timer if it is not 0 and leaves it 0
\* if it is; it changes nothing else of the VM, the other timer included.
C21_TimerTicks ==
    [][ /\ (runPc = "delayTimerTick" /\ runPc' # runPc) =>
              vm' = [vm EXCEPT !.delayTimer = IF @ > 0 THEN @ - 1 ELSE 0]
        /\ (runPc = "soundTimerTick" /\ runPc' # runPc) =>
              vm' = [vm EXCEPT !.soundTimer = IF @ > 0 THEN @ - 1 ELSE 0]
      ]_vars

\* The delay timer, set to 1, has reached 0 and been ticked at 0 while the
\* sound timer, set to 2, went on down to 0.
C21_Witness ==
    /\ runPc = "select" /\ vm.pc = 520
    /\ vm.v[0] = 1 /\ vm.v[1] = 2
    /\ vm.delayTimer = 0 /\ vm.soundTimer = 0
    /\ obs.audioDue = 1

----------------------------------------------------------------------------
(* Memory instructions.                                                    *)

\* The addresses I .. I + X of the VM m.
StoreRange(m, X) == {m.i + k : k \in 0 .. X}

\* C22: FX55 writes memory[I + k] = Vk for k in 0 .. X and changes no other
\* memory byte and no register; FX65 sets Vk = memory[I + k] for k in
\* 0 .. X and changes no register above VX and no memory; and an FX65 with
\* the X and I of the last FX55 leaves V0 .. VX as they were before that
\* FX55.
C22_StoreThenLoad ==
    [][ LET op == FetchWord(vm)
            X  == DecodeX(op)
        IN  /\ (CycleRuns /\ IsFX55(op)) =>
                  /\ \A a \in 0 .. MemSize - 1 :
                        vm'.memory[a] = (IF a \in StoreRange(vm, X)
                                         THEN vm.v[a - vm.i]
                                         ELSE vm.memory[a])
                  /\ vm'.v = vm.v /\ vm'.i = vm.i
            /\ (CycleRuns /\ IsFX65(op)) =>
                  /\ \A k \in 0 .. 15 :
                        vm'.v[k] = (IF k <= X THEN vm.memory[vm.i + k]
                                    ELSE vm.v[k])
                  /\ vm'.memory = vm.memory /\ vm'.i = vm.i
            /\ (CycleRuns /\ IsFX65(op) /\ obs.lastStore # <<>>
                  /\ obs.lastStore[1].x = X /\ obs.lastStore[1].i = vm.i) =>
                  \A k \in 0 .. X : vm'.v[k] = obs.lastStore[1].v[k] ]_vars

\* F165 has just brought V0 = 255 and V1 = 128 back from the last two
\* bytes of memory, after both registers had been overwritten.
C22_Witness ==
    /\ JustRan /\ IsFX65(vm.opcode) /\ DecodeX(vm.opcode) = 1
    /\ vm.i = 4094 /\ vm.memory[4094] = 255 /\ vm.memory[4095] = 128
    /\ vm.v[0] = 255 /\ vm.v[1] = 128
    /\ obs.lastStore # <<>>

\* C23: with I + 2 <= 4095, FX33 leaves in memory[I], memory[I + 1],
\* memory[I + 2] the hundreds, tens and ones digits of VX, changes no other
\* memory byte, and advances PC by 2.
C23_DecimalDigits ==
    [][ LET op == FetchWord(vm)
            VX == vm.v[DecodeX(op)]
        IN  (CycleRuns /\ IsFX33(op) /\ vm.i + 2 <= 4095) =>
               /\ \E h, t, o \in 0 .. 9 :
                     /\ 100 * h + 10 * t + o = VX
                     /\ vm'.memory = [vm.memory EXCEPT ![vm.i] = h,
                                                       ![vm.i + 1] = t,
                                                       ![vm.i + 2] = o]
               /\ vm'.pc = vm.pc + 2 ]_vars

\* FX33 has just written 2, 5, 5 for VX = 255 into the last three bytes of
\* memory.
C23_Witness ==
    /\ JustRan /\ IsFX33(vm.opcode)
    /\ vm.v[0] = 255 /\ vm.i = 4093
    /\ vm.memory[4093] = 2 /\ vm.memory[4094] = 5 /\ vm.memory[4095] = 5

IsFX29(op) == Family(op) = 61440 /\ BitAnd(op, 255) = 41

\* C24: for VX in 0x0 .. 0xF, after FX29 the five bytes memory[I .. I + 4]
\* are the glyph of the hex digit VX, FontSet[5 * VX .. 5 * VX + 4] (no
\* program here writes into memory 0 .. 79).
C24_FontAddress ==
    [][ LET op == FetchWord(vm)
            VX == vm.v[DecodeX(op)]
        IN  (CycleRuns /\ IsFX29(op) /\ VX <= 15) =>
               \A j \in 0 .. 4 :
                  vm'.memory[vm'.i + j] = FontSet[5 * VX + j + 1] ]_vars

\* FX29 has just pointed I at the glyph of F, the last of the font:
\* F0 80 F0 80 80 at 75 .. 79.
C24_Witness ==
    /\ JustRan /\ IsFX29(vm.opcode) /\ vm.v[2] = 15
    /\ vm.i = 75
    /\ vm.memory[75] = 240 /\ vm.memory[76] = 128 /\ vm.memory[79] = 128

----------------------------------------------------------------------------
(* Skips, unknown words, and what may change the framebuffer.              *)

\* The condition on which the skip instruction op skips, in the VM m.
SkipTaken(m, op) ==
    LET VX == m.v[DecodeX(op)]
        VY == m.v[DecodeY(op)]
    IN  CASE Family(op) = 12288 -> VX = DecodeNN(op)
          [] Family(op) = 16384 -> VX # DecodeNN(op)
          [] Family(op) = 20480 -> VX = VY
          [] Family(op) = 36864 -> VX # VY

IsSkip(op) ==
    \/ Family(op) \in {12288, 16384}
    \/ Family(op) \in {20480, 36864} /\ BitAnd(op, 15) = 0

\* C25: 3XNN, 4XNN, 5XY0 and 9XY0 advance PC by 4 when their condition
\* holds and by 2 otherwise, and change nothing else of the VM.
C25_SkipsChangeOnlyPc ==
    [][ LET op == FetchWord(vm)
        IN  (CycleRuns /\ IsSkip(op)) =>
               vm' = [vm EXCEPT !.pc = vm.pc + (IF SkipTaken(vm, op)
                                                THEN 4 ELSE 2),
                                !.opcode = op, !.drawFlag = FALSE] ]_vars

\* 9010 has just skipped with V0 = 1 and V1 = 0, the glyph still on the
\* screen and the delay timer running.
C25_Witness ==
    /\ JustRan /\ vm.opcode = Word(9, 0, 1, 0)
    /\ vm.v[0] = 1 /\ vm.v[1] = 0 /\ vm.pc = 526
    /\ Lit(vm.gfx) # {} /\ vm.delayTimer > 0

\* The word op matches a pattern of the catalogue of instructions.
InCatalogue(op) ==
    LET low == BitAnd(op, 255)
        n   == BitAnd(op, 15)
    IN  CASE Family(op) = 0 -> op \in {224, 238}
          [] Family(op) \in {20480, 36864} -> n = 0
          [] Family(op) = 32768 -> n \in (0 .. 7) \cup {14}
          [] Family(op) = 57344 -> low \in {158, 161}
          [] Family(op) = 61440 ->
                 low \in {7, 10, 21, 24, 30, 41, 51, 85, 101}
          [] OTHER -> TRUE

\* C26: a word in no pattern of the catalogue is reported as an unknown
\* opcode and changes no register, I, memory, stack, timer, keypad entry
\* or framebuffer cell.
C26_UnknownWordsRejected ==
    [][ LET op == FetchWord(vm)
        IN  (CycleStep /\ ~FetchPanics(vm) /\ ~InCatalogue(op)) =>
               /\ runPc' = "drawOrUpdate"
               /\ obs'.err # NoErr
               /\ vm' = [vm EXCEPT !.pc = vm'.pc, !.opcode = op,
                                   !.drawFlag = FALSE] ]_vars

\* C27: every framebuffer cell is 0 or 1, and a step changes a cell only
\* if it is the execution of 00E0 or of a DXYN.
C27_OnlyClearAndDrawTouchScreen ==
    /\ \A ind \in 0 .. GfxSize - 1 : vm.gfx[ind] \in {0, 1}
    /\ [][ /\ \A ind \in 0 .. GfxSize - 1 : vm'.gfx[ind] \in {0, 1}
           /\ vm'.gfx # vm.gfx =>
                 /\ CycleRuns
                 /\ FetchWord(vm) = 224 \/ IsDraw(FetchWord(vm)) ]_vars

----------------------------------------------------------------------------
(* The ends of memory.                                                     *)

\* The handler of the word Run panicked in indexes memory through I.
UsesIndex(op) == IsDraw(op) \/ IsFX33(op) \/ IsFX55(op) \/ IsFX65(op)

\* C31: at the start of every cycle PC <= 4094, and no fetch reads
\* memory[PC] or memory[PC + 1] outside the 4096 bytes of memory.
C31_PcInMemory ==
    /\ runPc \in {"select", "emulateCycle"} => vm.pc <= MemSize - 2
    /\ runPc = "panic" => ~FetchPanics(vm)

\* C32: I is always in 0x000 .. 0xFFF, and no DXYN, FX33, FX55 or FX65
\* addresses a byte outside 0 .. 4095 through I.
C32_IndexInMemory ==
    /\ vm.i \in 0 .. MemSize - 1
    /\ (runPc = "panic" /\ ~FetchPanics(vm)) => ~UsesIndex(FetchWord(vm))

\* C33: FX55 and FX65 leave I = I + X + 1.
C33_IndexAdvances ==
    [][ LET op == FetchWord(vm)
        IN  (CycleRuns /\ (IsFX55(op) \/ IsFX65(op))) =>
               vm'.i = vm.i + DecodeX(op) + 1 ]_vars

----------------------------------------------------------------------------
(* The iteration of Run.                                                   *)

IsFX07(op) == Family(op) = 61440 /\ BitAnd(op, 255) = 7
IsFX15(op) == Family(op) = 61440 /\ BitAnd(op, 255) = 21

\* A timer value after one tick.
Ticked(t) == IF t > 0 THEN t - 1 ELSE 0

\* C34: at a clock tick with the window open Run does one instruction
\* cycle, then drawOrUpdate, then handleKeyInput, then one delay-timer tick
\* and one sound-timer tick, in that order, and the timers change in no
\* other step of the iteration but a cycle that writes them; so an FX07
\* executed in the cycle after an FX15 that wrote n reads n - 1 (0 for
\* n = 0).
C34_OneTickPerCycle ==
    [][ LET op == FetchWord(vm)
        IN  /\ (runPc = "select" /\ runPc' # runPc /\ ~window.closed) =>
                  (runPc' = "emulateCycle" /\ vm' = vm)
            /\ (runPc = "emulateCycle" /\ runPc' # runPc) =>
                  runPc' \in {"drawOrUpdate", "panic"}
            /\ CycleRuns =>
                  /\ IsFX15(op) \/ vm'.delayTimer = vm.delayTimer
                  /\ IsFX18(op) \/ vm'.soundTimer = vm.soundTimer
            /\ (runPc = "drawOrUpdate" /\ runPc' # runPc) =>
                  /\ runPc' = "handleKeyInput"
                  /\ vm'.delayTimer = vm.delayTimer
                  /\ vm'.soundTimer = vm.soundTimer
            /\ (runPc = "handleKeyInput" /\ runPc' # runPc) =>
                  /\ runPc' = "delayTimerTick"
                  /\ vm'.delayTimer = vm.delayTimer
                  /\ vm'.soundTimer = vm.soundTimer
            /\ (runPc = "delayTimerTick" /\ runPc' # runPc) =>
                  /\ runPc' = "soundTimerTick"
                  /\ vm'.delayTimer = Ticked(vm.delayTimer)
                  /\ vm'.soundTimer = vm.soundTimer
            /\ (runPc = "soundTimerTick" /\ runPc' # runPc) =>
                  /\ runPc' = "select"
                  /\ vm'.delayTimer = vm.delayTimer
                  /\ vm'.soundTimer = Ticked(vm.soundTimer)
            /\ (CycleRuns /\ IsFX07(op) /\ obs.err = NoErr
                   /\ IsFX15(vm.opcode)) =>
                  vm'.v[DecodeX(op)] = Ticked(vm.v[DecodeX(vm.opcode)]) ]_vars

\* F015 wrote 2 to the delay timer and the F107 of the next cycle has
\* read 1.
C34_Witness ==
    /\ JustRan /\ IsFX07(vm.opcode) /\ vm.pc = 518
    /\ vm.v[0] = 2 /\ vm.v[1] = 1 /\ vm.delayTimer = 1

----------------------------------------------------------------------------
(* The keypad between the window and the instructions.                     *)

\* The handler of the word op indexes the keypad with VX.
UsesKeypad(op) == IsEX9E(op) \/ IsEXA1(op) \/ IsFX0A(op)

\* C35: EX9E, EXA1 and FX0A index the keypad within 0 .. 15 whatever VX
\* holds: Run never panics in one of them.
C35_KeypadIndexInRange ==
    (runPc = "panic" /\ ~FetchPanics(vm)) => ~UsesKeypad(FetchWord(vm))

\* C36: a keypad entry that is down goes up only in a cycle whose EX9E or
\* EXA1 names that key or whose FX0A returns it; handleKeyInput sets the
\* entry of a key just pressed and of a held key whose repeat ticker has
\* ticked, stops the ticker of a key just released without touching its
\* entry, and changes nothing else.
C36_KeysLatched ==
    [][ /\ \A k \in 0 .. NumKeys - 1 :
              (vm.keypad[k] # 0 /\ vm'.keypad[k] = 0) =>
                 /\ CycleRuns
                 /\ LET op == FetchWord(vm)
                    IN  \/ /\ IsEX9E(op) \/ IsEXA1(op)
                           /\ vm.v[DecodeX(op)] = k
                        \/ /\ IsFX0A(op)
                           /\ vm'.v[DecodeX(op)] = k
        /\ (runPc = "handleKeyInput" /\ runPc' # runPc) =>
              \A k \in 0 .. NumKeys - 1 :
                 LET held == k \in window.KeysDown
                 IN  IF JustReleased(window, k)
                     THEN /\ k \notin window'.KeysDown
                          /\ vm'.keypad[k] = vm.keypad[k]
                     ELSE IF JustPressed(window, k)
                     THEN /\ k \in window'.KeysDown
                          /\ vm'.keypad[k] = 1
                     ELSE /\ k \in window'.KeysDown <=> held
                          /\ vm'.keypad[k] =
                                (IF held /\ k \in window.tickReady THEN 1
                                 ELSE vm.keypad[k]) ]_vars

\* In the program 63FF F30A 1204, FX0A has returned key 0 (V3 went from 255
\* to 0, and the program spins); key 0 was then pressed again and released,
\* its ticker is gone, two polls have seen no key, and keypad[0] is still
\* down.
C36_Witness ==
    /\ runPc = "select" /\ vm.pc = 516
    /\ vm.memory[513] = 255 /\ vm.memory[514] = 243 /\ vm.memory[515] = 10
    /\ vm.v[3] = 0
    /\ window.prevInp = {} /\ window.currInp = {} /\ window.KeysDown = {}
    /\ vm.keypad[0] = 1

----------------------------------------------------------------------------
(* The audio channel at shutdown.                                          *)

\* C37: audioC is closed once, by signalShutdown after Run has left its
\* loop, and stays closed; Run is never in its loop (so never at the send
\* of soundTimerTick) with audioC closed; a ManageAudio waiting in its
\* range loop receives nothing more after the close and can only return;
\* and after the close ManageAudio ends, by returning or with the process
\* when runChippy returns.
C37_AudioChannelClosedOnce ==
    /\ [][ /\ audioC' # audioC =>
                 /\ audioC = "open" /\ audioC' = "closed"
                 /\ runPc = "signalShutdown" /\ runPc' = "sendShutdown"
           /\ (runPc = "signalShutdown" /\ runPc' # runPc) =>
                 (audioC' = "closed" /\ runPc' = "sendShutdown")
           /\ audioC = "closed" =>
                 /\ runPc \in {"sendShutdown", "done"}
                 /\ runPc' \in {"sendShutdown", "done"}
                 /\ audioPc' # audioPc =>
                       audioPc' \in {"range", "returned"}
                 /\ (audioPc = "range" /\ audioPc' # audioPc) =>
                       audioPc' = "returned" ]_vars
    /\ (audioC = "closed") ~> (audioPc = "returned" \/ mainPc = "returned")

\* The sound timer ran out and ManageAudio played the beep; the window
\* was then closed, Run closed audioC, and ManageAudio left its range loop
\* before runChippy returned.
C37_Witness ==
    /\ audioC = "closed" /\ audioPc = "returned" /\ mainPc = "recv"
    /\ runPc = "sendShutdown" /\ obs.audioDue = 1

====
